---- MODULE Spec2Model ----
(***************************************************************************)
(* State-machine model of src/server.js: the Express handlers of the       *)
(* mini-app backend (auth, me, reward/ad, withdraw, admin approval) run    *)
(* as concurrent request handlers against one shared external store.       *)
(* A handler runs atomically between two awaits (Node's event loop); each  *)
(* awaited store call is one atomic step of the store.                     *)
(***************************************************************************)
EXTENDS Integers, Sequences, FiniteSets, TLC

(***************************************************************************)
(* Bounds of the model.                                                    *)
(***************************************************************************)
\* number of request handlers that may be started (and run concurrently)
NumProcs == 2
\* number of times the wall clock is advanced
MaxTicks == 2

(***************************************************************************)
(* JavaScript numbers.  A coin amount n is the record [hi, lo] standing    *)
(* for hi * 2^32 + lo with lo in the signed 32-bit range, so that values   *)
(* beyond 32 bits are kept exactly (as the double arithmetic of JS keeps   *)
(* them) and the 32-bit truncation  n|0  is the projection on lo.          *)
(***************************************************************************)
Num(h, l) == [hi |-> h, lo |-> l]
Zero == Num(0, 0)
NLess(a, b) == a.hi < b.hi \/ (a.hi = b.hi /\ a.lo < b.lo)
NLeq(a, b) == ~NLess(b, a)
NAdd(a, b) == Num(a.hi + b.hi, a.lo + b.lo)
NSub(a, b) == Num(a.hi - b.hi, a.lo - b.lo)
\* n|0 : ToInt32 keeps the low 32 bits, read as a signed integer
ToInt32(n) == n.lo
\* !n for a number: only 0 is falsy
Falsy(n) == n = Zero

(***************************************************************************)
(* Configuration (process.env) with the defaults of the source.            *)
(***************************************************************************)
COOLDOWN == 10
REWARD == 10
COINS_PER_USDT == 100
MIN_USDT == 20
minCoins == COINS_PER_USDT * MIN_USDT
\* expiresIn: '2h', in seconds
EXPIRES_IN == 7200
\* the data-check secret derived from BOT_TOKEN
SECRET_KEY == "sha256(BOT_TOKEN)"

\* JS undefined, where a string is expected
Undefined == "<undefined>"
\* a null timestamp
Null == -1

\* ADMIN_IDS as the list of its comma-separated segments; <<>> is the unset
\* (or empty) variable
AdminConfigs == { <<>>, <<"900">>, <<"900", "">> }
\* (process.env.ADMIN_IDS||'').split(',').map(s=>s.trim())
SplitTrimAsAdminIds(raw) == IF raw = <<>> THEN {""} ELSE { raw[i] : i \in DOMAIN raw }
\* String(admin) of the query parameter
String(v) == IF v = Undefined THEN "undefined" ELSE v

(***************************************************************************)
(* The store: users, ad_events, withdraw_requests.                         *)
(***************************************************************************)
Ids == {"101", "102", "undefined"}
NoRow == [exists |-> FALSE, balance |-> Zero, last_ad_at |-> Null]
\* column defaults of a row created by the upsert
NewRow == [exists |-> TRUE, balance |-> Zero, last_ad_at |-> Null]
\* column default of withdraw_requests.status
DefaultStatus == "pending"
\* balances a user may hold when the server starts
InitBalances == { Zero, Num(0, 2000) }

VARIABLES
  env,        \* configuration read from the environment
  clock,      \* wall clock, in milliseconds
  ticks,      \* number of clock advances so far
  users,      \* users table: id -> row
  ad_events,  \* ad_events table: sequence of [user_id, reward]
  withdraws,  \* withdraw_requests table: sequence of rows, id = index
  tokens,     \* session tokens issued to clients
  h,          \* request handlers: local state and response of each
  start       \* history: the users and withdraw_requests tables at server start

vars == <<env, clock, ticks, users, ad_events, withdraws, tokens, h, start>>

Procs == 1..NumProcs

(***************************************************************************)
(* Session tokens (jsonwebtoken).                                          *)
(***************************************************************************)
\* jwt.sign({uid}, JWT_SECRET, {expiresIn:'2h'}) at time now (ms)
sign(u, now) == [uid |-> u, iat |-> now \div 1000, exp |-> (now \div 1000) + EXPIRES_IN, good |-> TRUE]

NoHeader == [kind |-> "none", tok |-> [uid |-> "", iat |-> 0, exp |-> 0, good |-> FALSE]]
Bearer(t) == [kind |-> "bearer", tok |-> t]
\* a bearer token that was not signed with JWT_SECRET
Forged == Bearer([uid |-> "101", iat |-> 0, exp |-> 1000000, good |-> FALSE])
Headers == {NoHeader, Forged} \cup { Bearer(t) : t \in tokens }

\* a verification that still accepts a token in the second of its expiry
jwtVerifiesLate(hdr, now) ==
  /\ hdr.kind = "bearer"
  /\ hdr.tok.good
  /\ (now \div 1000) <= hdr.tok.exp
\* jwt.verify(token, JWT_SECRET) at time now: TRUE iff it does not throw
jwtVerifies(hdr, now) ==
  /\ hdr.kind = "bearer"
  /\ hdr.tok.good
  /\ (now \div 1000) < hdr.tok.exp

(***************************************************************************)
(* Handlers.                                                               *)
(***************************************************************************)
Idle == [op |-> "none", pc |-> "idle", hdr |-> NoHeader, uid |-> "",
         user |-> NoRow, now |-> 0, amount |-> Zero,
         admin |-> "", id |-> 0, action |-> "", initData |-> 0,
         status |-> 0, error |-> "", left |-> 0, failed |-> FALSE]

\* res.status(code).json({error}) : the handler is finished
Respond(r, code, err) ==
  [r EXCEPT !.pc = "done", !.status = code, !.error = err, !.user = NoRow, !.now = 0]

\* an exception thrown inside an async handler: the rejected promise is left
\* unhandled and the request is never answered (Express 4), or it is passed
\* to the default error handler, which answers 500 (Express 5)
Throws(r) == { [r EXCEPT !.pc = "crashed"], Respond(r, 500, "exception") }

\* handlers are started in the order of their index
CanStart(p) == /\ h[p].pc = "idle"
               /\ \A q \in Procs : q < p => h[q].pc # "idle"

\* supabase.from('users').select('*').eq('id', uid).single()
SelectUser(uid) == users[uid]

\* The store outlives the server: when the server starts, user 101 is known,
\* holds a session token and has one withdraw request pending; the other
\* users have no row yet.
InitStore ==
  /\ clock = 0
  /\ ticks = 0
  /\ users \in { [i \in Ids |-> IF i = "101" THEN [NewRow EXCEPT !.balance = b] ELSE NoRow]
                 : b \in InitBalances }
  /\ ad_events = <<>>
  /\ withdraws = << [user_id |-> "101", amount_coins |-> Num(0, 2000),
                     status |-> DefaultStatus] >>
  /\ tokens = { sign("101", 0) }
  /\ h = [p \in Procs |-> Idle]
  /\ start = [users |-> users, withdraws |-> withdraws]

Init ==
  /\ env = [ADMIN_IDS |-> <<"900">>]
  /\ InitStore

\* time passes: the clock advances by d milliseconds
TickSteps == {500, 5000}
LongSteps == {500, 7199500}
Tick(steps) ==
  /\ ticks < MaxTicks
  /\ \E d \in steps : clock' = clock + d
  /\ ticks' = ticks + 1
  /\ UNCHANGED <<env, start, users, ad_events, withdraws, tokens, h>>

(***************************************************************************)
(* POST /api/reward/ad                                                     *)
(***************************************************************************)
\* the remaining seconds rounded down instead of up
LeftFloor(now, last) == (COOLDOWN * 1000 - (now - last)) \div 1000
\* Math.ceil(COOLDOWN - (now - last)/1000), now and last in milliseconds
Left(now, last) == -((-(COOLDOWN * 1000 - (now - last))) \div 1000)

\* last && (now - last)/1000 < COOLDOWN
InCooldown(now, last) == last # Null /\ (now - last) < COOLDOWN * 1000

\* auth middleware, then the select is sent
RewardBegin(p) ==
  /\ CanStart(p)
  /\ \E hdr \in Headers :
       LET r == [Idle EXCEPT !.op = "reward", !.hdr = hdr] IN
       IF jwtVerifies(hdr, clock)
       THEN h' = [h EXCEPT ![p] = [r EXCEPT !.pc = "rw_select", !.uid = hdr.tok.uid]]
       ELSE h' = [h EXCEPT ![p] = Respond(r, 401, "unauthorized")]
  /\ UNCHANGED <<env, start, clock, ticks, users, ad_events, withdraws, tokens>>

\* the store answers the select of line 89
RewardSelect(p) ==
  /\ h[p].pc = "rw_select"
  /\ h' = [h EXCEPT ![p] = [h[p] EXCEPT !.pc = "rw_gate", !.user = SelectUser(h[p].uid)]]
  /\ UNCHANGED <<env, start, clock, ticks, users, ad_events, withdraws, tokens>>

\* lines 90-98: take now, check the cooldown, send the update
RewardGate(p) ==
  /\ h[p].pc = "rw_gate"
  /\ LET r == h[p]
         last == IF r.user.exists THEN r.user.last_ad_at ELSE Null
     IN IF InCooldown(clock, last)
        THEN h' = [h EXCEPT ![p] = [Respond(r, 429, "cooldown") EXCEPT
                                      !.now = clock, !.left = Left(clock, last)]]
        ELSE IF ~r.user.exists
        THEN \* user is null: user.balance throws
             \E t \in Throws([r EXCEPT !.now = clock]) : h' = [h EXCEPT ![p] = t]
        ELSE h' = [h EXCEPT ![p] = [r EXCEPT !.pc = "rw_update", !.now = clock]]
  /\ UNCHANGED <<env, start, clock, ticks, users, ad_events, withdraws, tokens>>

\* the store executes the update of lines 97-99
RewardUpdate(p) ==
  /\ h[p].pc = "rw_update"
  /\ LET r == h[p] IN
       users' = [users EXCEPT ![r.uid] =
                   IF @.exists
                   THEN [@ EXCEPT !.balance = NAdd(r.user.balance, Num(0, REWARD)),
                                  !.last_ad_at = r.now]
                   ELSE @]
  /\ h' = [h EXCEPT ![p] = [h[p] EXCEPT !.pc = "rw_insert"]]
  /\ UNCHANGED <<env, start, clock, ticks, ad_events, withdraws, tokens>>

\* the store executes the insert of line 102
RewardInsert(p) ==
  /\ h[p].pc = "rw_insert"
  /\ ad_events' = Append(ad_events, [user_id |-> h[p].uid, reward |-> REWARD])
  /\ h' = [h EXCEPT ![p] = [h[p] EXCEPT !.pc = "rw_reselect"]]
  /\ UNCHANGED <<env, start, clock, ticks, users, withdraws, tokens>>

\* the store answers the select of line 104; the handler responds
RewardRespond(p) ==
  /\ h[p].pc = "rw_reselect"
  /\ LET updated == SelectUser(h[p].uid) IN
       IF updated.exists
       THEN h' = [h EXCEPT ![p] = Respond(h[p], 200, "")]
       ELSE \* updated is null: updated.balance throws
            \E t \in Throws(h[p]) : h' = [h EXCEPT ![p] = t]
  /\ UNCHANGED <<env, start, clock, ticks, users, ad_events, withdraws, tokens>>

(***************************************************************************)
(* POST /api/withdraw                                                      *)
(***************************************************************************)
\* request bodies: are method and account present, and amount_coins
Amounts == { Zero, Num(0, 1999), Num(0, 2000), Num(-1, 2000) }
WithdrawBodies == { [fields |-> FALSE, amount |-> Num(0, 2000)] }
                  \cup { [fields |-> TRUE, amount |-> a] : a \in Amounts }

\* (amount_coins|0) < minCoins
BelowMin(amount) == ToInt32(amount) < minCoins
\* (user.balance||0) < amount_coins
Insufficient(balance, amount) == NLess(balance, amount)

\* auth middleware, the check of line 109, then the select is sent
WithdrawBegin(p) ==
  /\ CanStart(p)
  /\ \E hdr \in Headers :
       LET r == [Idle EXCEPT !.op = "withdraw", !.hdr = hdr] IN
       IF ~jwtVerifies(hdr, clock)
       THEN h' = [h EXCEPT ![p] = Respond(r, 401, "unauthorized")]
       ELSE \E b \in WithdrawBodies :
              LET rb == [r EXCEPT !.uid = hdr.tok.uid, !.amount = b.amount] IN
              IF ~b.fields \/ Falsy(b.amount)
              THEN h' = [h EXCEPT ![p] = Respond(rb, 400, "missing fields")]
              ELSE h' = [h EXCEPT ![p] = [rb EXCEPT !.pc = "wd_select"]]
  /\ UNCHANGED <<env, start, clock, ticks, users, ad_events, withdraws, tokens>>

\* the store answers the select of line 115; lines 116-117; the insert is sent
WithdrawAdmit(p) ==
  /\ h[p].pc = "wd_select"
  /\ LET user == SelectUser(h[p].uid)
         r == [h[p] EXCEPT !.user = user]
     IN IF BelowMin(r.amount)
        THEN h' = [h EXCEPT ![p] = Respond(r, 400, "min coins")]
        ELSE IF ~user.exists
        THEN \* user is null: user.balance throws
             \E t \in Throws(r) : h' = [h EXCEPT ![p] = t]
        ELSE IF Insufficient(user.balance, r.amount)
        THEN h' = [h EXCEPT ![p] = Respond(r, 400, "insufficient balance")]
        ELSE h' = [h EXCEPT ![p] = [r EXCEPT !.pc = "wd_insert"]]
  /\ UNCHANGED <<env, start, clock, ticks, users, ad_events, withdraws, tokens>>

\* the store executes the insert of lines 119-121
WithdrawInsert(p) ==
  /\ h[p].pc = "wd_insert"
  /\ withdraws' = Append(withdraws, [user_id |-> h[p].uid, amount_coins |-> h[p].amount,
                                     status |-> DefaultStatus])
  /\ h' = [h EXCEPT ![p] = [h[p] EXCEPT !.pc = "wd_update"]]
  /\ UNCHANGED <<env, start, clock, ticks, users, ad_events, tokens>>

\* the store executes the update of line 122; the handler responds
WithdrawUpdate(p) ==
  /\ h[p].pc = "wd_update"
  /\ LET r == h[p] IN
       users' = [users EXCEPT ![r.uid] =
                   IF @.exists
                   THEN [@ EXCEPT !.balance = NSub(r.user.balance, r.amount)]
                   ELSE @]
  /\ h' = [h EXCEPT ![p] = Respond(h[p], 200, "")]
  /\ UNCHANGED <<env, start, clock, ticks, ad_events, withdraws, tokens>>

(***************************************************************************)
(* POST /api/admin/withdraw/:id/:action                                    *)
(***************************************************************************)
\* the ?admin= query parameter and the :action path parameter
AdminQueries == { Undefined, "", "900", "101" }
Actions == { "approve", "reject", "delete" }

\* adminIds.includes(String(admin))
IsAdmin(raw, admin) == String(admin) \in SplitTrimAsAdminIds(raw)
\* ['approve','reject'].includes(action)
GoodAction(action) == action \in {"approve", "reject"}

\* lines 129-134, then the update is sent
AdminBegin(p) ==
  /\ CanStart(p)
  /\ \E admin \in AdminQueries :
       LET r == [Idle EXCEPT !.op = "admin", !.admin = admin] IN
       IF ~IsAdmin(env.ADMIN_IDS, admin)
       THEN h' = [h EXCEPT ![p] = Respond(r, 403, "forbidden")]
       ELSE \E id \in 1..(Len(withdraws) + 1), action \in Actions :
              LET ra == [r EXCEPT !.id = id, !.action = action] IN
              IF ~GoodAction(action)
              THEN h' = [h EXCEPT ![p] = Respond(ra, 400, "bad action")]
              ELSE h' = [h EXCEPT ![p] = [ra EXCEPT !.pc = "ad_update"]]
  /\ UNCHANGED <<env, start, clock, ticks, users, ad_events, withdraws, tokens>>

\* an update without the filter on the id
AdminUpdateAll(p) ==
  /\ h[p].pc = "ad_update"
  /\ withdraws' = [i \in DOMAIN withdraws |-> [withdraws[i] EXCEPT !.status = h[p].action]]
  /\ h' = [h EXCEPT ![p] = Respond(h[p], 200, "")]
  /\ UNCHANGED <<env, start, clock, ticks, users, ad_events, tokens>>
\* the store executes the update of line 136; the handler responds
AdminUpdate(p) ==
  /\ h[p].pc = "ad_update"
  /\ withdraws' = [i \in DOMAIN withdraws |->
                     IF i = h[p].id THEN [withdraws[i] EXCEPT !.status = h[p].action]
                     ELSE withdraws[i]]
  /\ h' = [h EXCEPT ![p] = Respond(h[p], 200, "")]
  /\ UNCHANGED <<env, start, clock, ticks, users, ad_events, tokens>>

(***************************************************************************)
(* GET /api/me                                                             *)
(***************************************************************************)
MeBegin(p) ==
  /\ CanStart(p)
  /\ \E hdr \in Headers :
       LET r == [Idle EXCEPT !.op = "me", !.hdr = hdr] IN
       IF jwtVerifies(hdr, clock)
       THEN h' = [h EXCEPT ![p] = [r EXCEPT !.pc = "me_select", !.uid = hdr.tok.uid]]
       ELSE h' = [h EXCEPT ![p] = Respond(r, 401, "unauthorized")]
  /\ UNCHANGED <<env, start, clock, ticks, users, ad_events, withdraws, tokens>>

\* the store answers the select of line 79; the handler responds
MeRespond(p) ==
  /\ h[p].pc = "me_select"
  /\ LET data == SelectUser(h[p].uid) IN
       IF data.exists
       THEN h' = [h EXCEPT ![p] = Respond(h[p], 200, "")]
       ELSE h' = [h EXCEPT ![p] = Respond(h[p], 500, "no rows")]
  /\ UNCHANGED <<env, start, clock, ticks, users, ad_events, withdraws, tokens>>

(***************************************************************************)
(* POST /api/auth                                                          *)
(***************************************************************************)
\* crypto.createHmac('sha256', key).update(msg).digest('hex'): an ideal keyed
\* hash, injective in key and message
Hmac(key, msg) == [key |-> key, msg |-> msg]
\* the hash of a payload without hash field
NoHash == [key |-> "", msg |-> Undefined]

\* the keys of the payloads, in the order of Array.prototype.sort (the order
\* of strings by code units)
SortedKeys == << "auth_date", "query_id", "user" >>
Rank(k) == CHOOSE i \in DOMAIN SortedKeys : SortedKeys[i] = k
KeyLess(a, b) == Rank(a) < Rank(b)

\* Object.fromEntries(new URLSearchParams(initData)) without hash: a later
\* field overrides an earlier one of the same key
HasKey(fields, k) == \E i \in DOMAIN fields : fields[i][1] = k
Get(fields, k) ==
  LET last == CHOOSE i \in DOMAIN fields :
                /\ fields[i][1] = k
                /\ \A j \in DOMAIN fields : fields[j][1] = k => j <= i
  IN fields[last][2]

\* Object.keys(data): the keys in the order of their insertion, which is the
\* order of their first occurrence in the payload
Keys(fields) ==
  LET firsts == { i \in DOMAIN fields : \A j \in 1..(i - 1) : fields[j][1] # fields[i][1] }
      nth(n) == CHOOSE i \in firsts : Cardinality({ j \in firsts : j <= i }) = n
  IN [n \in 1..Cardinality(firsts) |-> fields[nth(n)][1]]

\* Array.prototype.sort(): the keys in ascending order
RECURSIVE Insert(_, _)
Insert(k, keys) ==
  IF keys = <<>> THEN <<k>>
  ELSE IF KeyLess(Head(keys), k) THEN <<Head(keys)>> \o Insert(k, Tail(keys))
  ELSE <<k>> \o keys
RECURSIVE Sort(_)
Sort(keys) == IF keys = <<>> THEN <<>> ELSE Insert(Head(keys), Sort(Tail(keys)))

\* keys.map(k => `${k}=${data[k]}`).join('\n')
RECURSIVE MapJoin(_, _)
MapJoin(fields, keys) ==
  IF keys = <<>> THEN ""
  ELSE Head(keys) \o "=" \o Get(fields, Head(keys))
       \o (IF Tail(keys) = <<>> THEN "" ELSE "\n" \o MapJoin(fields, Tail(keys)))

\* the key=value lines in the order of the payload, without the sort
dataCheckStringUnsorted(fields) == MapJoin(fields, Keys(fields))
\* Object.keys(data).sort().map(k => `${k}=${data[k]}`).join('\n')
dataCheckString(fields) == MapJoin(fields, Sort(Keys(fields)))

\* user descriptors
User101 == "{\"id\":101}"
User102 == "{\"id\":102}"
\* JSON.parse(text) and String(user.id) of the result
JSONParses(text) == text \in { User101, User102, "{}" }
StringOfId(text) ==
  CASE text = User101 -> "101"
    [] text = User102 -> "102"
    [] OTHER -> "undefined"

\* data.user || '{}'
UserText(fields) ==
  IF HasKey(fields, "user") /\ Get(fields, "user") # "" THEN Get(fields, "user") ELSE "{}"

\* a verification that skips the comparison when the payload has no hash
verifyTelegramInitDataSkips(d) ==
  IF d.hash # NoHash /\ Hmac(SECRET_KEY, dataCheckString(d.fields)) # d.hash
  THEN [result |-> "null", id |-> ""]
  ELSE IF ~JSONParses(UserText(d.fields))
  THEN [result |-> "throws", id |-> ""]
  ELSE [result |-> "ok", id |-> StringOfId(UserText(d.fields))]
\* verifyTelegramInitData: "null" (bad signature), "throws" (JSON.parse) or
\* "ok" with the id of the identity
verifyTelegramInitData(d) ==
  IF Hmac(SECRET_KEY, dataCheckString(d.fields)) # d.hash
  THEN [result |-> "null", id |-> ""]
  ELSE IF ~JSONParses(UserText(d.fields))
  THEN [result |-> "throws", id |-> ""]
  ELSE [result |-> "ok", id |-> StringOfId(UserText(d.fields))]

\* what Telegram sends for these fields
Signed(fields) == [present |-> TRUE, fields |-> fields,
                   hash |-> Hmac(SECRET_KEY, dataCheckString(fields))]
\* request bodies of /api/auth
InitDatas == <<
  [present |-> FALSE, fields |-> <<>>, hash |-> NoHash],
  Signed(<< <<"auth_date", "1">>, <<"user", User101>> >>),
  Signed(<< <<"user", User102>>, <<"auth_date", "1">> >>),
  Signed(<< <<"auth_date", "1">> >>),
  Signed(<< <<"auth_date", "1">>, <<"user", "">> >>),
  Signed(<< <<"auth_date", "1">>, <<"user", "{}">> >>),
  Signed(<< <<"auth_date", "1">>, <<"user", "{id:">> >>),
  [present |-> TRUE, fields |-> << <<"auth_date", "1">>, <<"user", User102>> >>,
   hash |-> NoHash],
  [present |-> TRUE, fields |-> << <<"auth_date", "1">>, <<"user", User102>> >>,
   hash |-> Hmac("guess", dataCheckString(<< <<"auth_date", "1">>, <<"user", User102>> >>))],
  [present |-> TRUE, fields |-> << <<"auth_date", "1">>, <<"user", User102>> >>,
   hash |-> Hmac(SECRET_KEY, dataCheckString(<< <<"auth_date", "1">>, <<"user", User101>> >>))]
>>

\* the fields Telegram sends for user 101
FieldPool == { <<"auth_date", "1">>, <<"query_id", "q">>, <<"user", User101>> }
\* some of these fields, in any order
Orders ==
  { f \in UNION { [1..n -> FieldPool] : n \in 1..Cardinality(FieldPool) } :
      \A i, j \in DOMAIN f : i # j => f[i] # f[j] }
\* the fields of f in ascending order of their keys
Ascending(f) ==
  CHOOSE g \in Orders :
    /\ { g[i] : i \in DOMAIN g } = { f[i] : i \in DOMAIN f }
    /\ \A i, j \in DOMAIN g : i < j => KeyLess(g[i][1], g[j][1])
RECURSIVE SetToSeq(_)
SetToSeq(S) ==
  IF S = {} THEN <<>>
  ELSE LET x == CHOOSE x \in S : TRUE IN <<x>> \o SetToSeq(S \ {x})
\* request bodies of /api/auth that carry these fields in every order, with
\* the hash Telegram computes for them, and all the fields in every order
\* with a hash under another key
PermutedDatas ==
  SetToSeq({ [present |-> TRUE, fields |-> f,
              hash |-> Hmac(SECRET_KEY, dataCheckString(Ascending(f)))] : f \in Orders }
           \cup
           { [present |-> TRUE, fields |-> f,
              hash |-> Hmac("guess", dataCheckString(Ascending(f)))]
             : f \in { g \in Orders : Len(g) = Cardinality(FieldPool) } })

\* all request bodies of /api/auth
Payloads == InitDatas \o PermutedDatas
PermutedBodies == (Len(InitDatas) + 1)..Len(Payloads)

\* lines 63-67, then the upsert is sent; bodies are the request bodies sent
\* (indices of Payloads)
AuthBegin(p, bodies) ==
  /\ CanStart(p)
  /\ \E n \in bodies :
       LET d == Payloads[n]
           r == [Idle EXCEPT !.op = "auth", !.initData = n]
           user == verifyTelegramInitData(d)
       IN IF ~d.present
          THEN h' = [h EXCEPT ![p] = Respond(r, 400, "missing initData")]
          ELSE IF user.result = "null"
          THEN h' = [h EXCEPT ![p] = Respond(r, 401, "bad signature")]
          ELSE IF user.result = "throws"
          THEN \E t \in Throws(r) : h' = [h EXCEPT ![p] = t]
          ELSE h' = [h EXCEPT ![p] = [r EXCEPT !.pc = "au_upsert", !.uid = user.id]]
  /\ UNCHANGED <<env, start, clock, ticks, users, ad_events, withdraws, tokens>>

\* the store executes the upsert of lines 69-71: a new row gets the column
\* defaults, an existing one keeps balance and last_ad_at
AuthUpsert(p) ==
  /\ h[p].pc = "au_upsert"
  /\ users' = [users EXCEPT ![h[p].uid] = IF @.exists THEN @ ELSE NewRow]
  /\ h' = [h EXCEPT ![p] = [h[p] EXCEPT !.pc = "au_select"]]
  /\ UNCHANGED <<env, start, clock, ticks, ad_events, withdraws, tokens>>

\* the store answers the select of line 73; the handler signs and responds
AuthRespond(p) ==
  /\ h[p].pc = "au_select"
  /\ tokens' = tokens \cup { sign(h[p].uid, clock) }
  /\ h' = [h EXCEPT ![p] = Respond(h[p], 200, "")]
  /\ UNCHANGED <<env, start, clock, ticks, users, ad_events, withdraws>>

(***************************************************************************)
(* Store failures.  A store call that fails resolves to {data: null,       *)
(* error}: the client does not throw.  The handler goes on as its code     *)
(* reads the result; failed records that a store call of the request       *)
(* failed.                                                                 *)
(***************************************************************************)
Failed(r) == [r EXCEPT !.failed = TRUE]

\* line 69: the result of the upsert is not read
AuthUpsertFails(p) ==
  /\ h[p].pc = "au_upsert"
  /\ h' = [h EXCEPT ![p] = [Failed(h[p]) EXCEPT !.pc = "au_select"]]
  /\ UNCHANGED <<env, start, clock, ticks, users, ad_events, withdraws, tokens>>

\* lines 73-74: data is null, the token is signed and profile: null is sent
AuthSelectFails(p) ==
  /\ h[p].pc = "au_select"
  /\ tokens' = tokens \cup { sign(h[p].uid, clock) }
  /\ h' = [h EXCEPT ![p] = Respond(Failed(h[p]), 200, "")]
  /\ UNCHANGED <<env, start, clock, ticks, users, ad_events, withdraws>>

\* line 89: user is null
RewardSelectFails(p) ==
  /\ h[p].pc = "rw_select"
  /\ h' = [h EXCEPT ![p] = [Failed(h[p]) EXCEPT !.pc = "rw_gate", !.user = NoRow]]
  /\ UNCHANGED <<env, start, clock, ticks, users, ad_events, withdraws, tokens>>

\* lines 97-100: uerr is set, the handler answers 500
RewardUpdateFails(p) ==
  /\ h[p].pc = "rw_update"
  /\ h' = [h EXCEPT ![p] = Respond(Failed(h[p]), 500, "store error")]
  /\ UNCHANGED <<env, start, clock, ticks, users, ad_events, withdraws, tokens>>

\* line 102: the result of the insert is not read
RewardInsertFails(p) ==
  /\ h[p].pc = "rw_insert"
  /\ h' = [h EXCEPT ![p] = [Failed(h[p]) EXCEPT !.pc = "rw_reselect"]]
  /\ UNCHANGED <<env, start, clock, ticks, users, ad_events, withdraws, tokens>>

\* lines 104-105: updated is null, updated.balance throws
RewardReselectFails(p) ==
  /\ h[p].pc = "rw_reselect"
  /\ \E t \in Throws(Failed(h[p])) : h' = [h EXCEPT ![p] = t]
  /\ UNCHANGED <<env, start, clock, ticks, users, ad_events, withdraws, tokens>>

\* lines 115-117: user is null; line 116 does not read it, line 117 throws
WithdrawSelectFails(p) ==
  /\ h[p].pc = "wd_select"
  /\ LET r == Failed(h[p]) IN
       IF BelowMin(r.amount)
       THEN h' = [h EXCEPT ![p] = Respond(r, 400, "min coins")]
       ELSE \E t \in Throws(r) : h' = [h EXCEPT ![p] = t]
  /\ UNCHANGED <<env, start, clock, ticks, users, ad_events, withdraws, tokens>>

\* lines 119-121: the result of the insert is not read
WithdrawInsertFails(p) ==
  /\ h[p].pc = "wd_insert"
  /\ h' = [h EXCEPT ![p] = [Failed(h[p]) EXCEPT !.pc = "wd_update"]]
  /\ UNCHANGED <<env, start, clock, ticks, users, ad_events, withdraws, tokens>>

\* lines 122-124: the result of the update is not read, ok: true is sent
WithdrawUpdateFails(p) ==
  /\ h[p].pc = "wd_update"
  /\ h' = [h EXCEPT ![p] = Respond(Failed(h[p]), 200, "")]
  /\ UNCHANGED <<env, start, clock, ticks, users, ad_events, withdraws, tokens>>

\* lines 136-137: the result of the update is not read, ok: true is sent
AdminUpdateFails(p) ==
  /\ h[p].pc = "ad_update"
  /\ h' = [h EXCEPT ![p] = Respond(Failed(h[p]), 200, "")]
  /\ UNCHANGED <<env, start, clock, ticks, users, ad_events, withdraws, tokens>>

Fails(p) ==
  \/ AuthUpsertFails(p) \/ AuthSelectFails(p)
  \/ RewardSelectFails(p) \/ RewardUpdateFails(p) \/ RewardInsertFails(p)
  \/ RewardReselectFails(p)
  \/ WithdrawSelectFails(p) \/ WithdrawInsertFails(p) \/ WithdrawUpdateFails(p)
  \/ AdminUpdateFails(p)

Reward(p) ==
  \/ RewardBegin(p) \/ RewardSelect(p) \/ RewardGate(p)
  \/ RewardUpdate(p) \/ RewardInsert(p) \/ RewardRespond(p)
Withdraw(p) ==
  \/ WithdrawBegin(p) \/ WithdrawAdmit(p) \/ WithdrawInsert(p) \/ WithdrawUpdate(p)
Admin(p) == AdminBegin(p) \/ AdminUpdate(p)
Me(p) == MeBegin(p) \/ MeRespond(p)
Auth(p, bodies) == AuthBegin(p, bodies) \/ AuthUpsert(p) \/ AuthRespond(p)

(***************************************************************************)
(* The server: any requests, in any interleaving.                          *)
(***************************************************************************)
Next ==
  \/ Tick(TickSteps)
  \/ \E p \in Procs : Reward(p)
  \/ \E p \in Procs : Withdraw(p)
  \/ \E p \in Procs : Admin(p)
  \/ \E p \in Procs : Me(p)
  \/ \E p \in Procs : Auth(p, DOMAIN InitDatas)

Spec == Init /\ [][Next]_vars

(***************************************************************************)
(* The server under reward requests only.                                  *)
(***************************************************************************)
NextReward ==
  \/ Tick(TickSteps)
  \/ \E p \in Procs : Reward(p)

SpecReward == Init /\ [][NextReward]_vars

(***************************************************************************)
(* Sessions over hours: authentication, and the requests that carry a      *)
(* token, with a clock that passes the expiry of the tokens.  The reward   *)
(* and withdraw requests are followed through the auth middleware, which   *)
(* is where a token is accepted or refused.                                *)
(***************************************************************************)
\* the payloads of users 101 and 102, and one without hash
SessionBodies == { 2, 3, 8 }
NextSession ==
  \/ Tick(LongSteps)
  \/ \E p \in Procs : Auth(p, SessionBodies)
  \/ \E p \in Procs : Me(p)
  \/ \E p \in Procs : RewardBegin(p)
  \/ \E p \in Procs : WithdrawBegin(p)

SpecSession == Init /\ [][NextSession]_vars

(***************************************************************************)
(* Withdrawals and their approval, under every admin configuration.        *)
(***************************************************************************)
InitAdmin ==
  /\ env \in [ADMIN_IDS : AdminConfigs]
  /\ InitStore

NextAdmin ==
  \/ \E p \in Procs : Withdraw(p)
  \/ \E p \in Procs : Admin(p)

SpecAdmin == InitAdmin /\ [][NextAdmin]_vars

(***************************************************************************)
(* The server under authentication requests only.                          *)
(***************************************************************************)
NextAuth == \E p \in Procs : Auth(p, DOMAIN InitDatas)

SpecAuth == Init /\ [][NextAuth]_vars

(***************************************************************************)
(* The server under authentication requests whose payloads carry the same  *)
(* fields in every order.                                                  *)
(***************************************************************************)
NextCanon == \E p \in Procs : Auth(p, PermutedBodies)

SpecCanon == Init /\ [][NextCanon]_vars

(***************************************************************************)
(* The ledger: reward and withdraw requests, interleaved.                  *)
(***************************************************************************)
NextLedger ==
  \/ \E p \in Procs : Reward(p)
  \/ \E p \in Procs : Withdraw(p)

SpecLedger == Init /\ [][NextLedger]_vars

(***************************************************************************)
(* The server with a store whose calls may fail.                           *)
(***************************************************************************)
NextFail ==
  \/ \E p \in Procs : Reward(p)
  \/ \E p \in Procs : Withdraw(p)
  \/ \E p \in Procs : Admin(p)
  \/ \E p \in Procs : Auth(p, SessionBodies)
  \/ \E p \in Procs : Fails(p)

SpecFail == Init /\ [][NextFail]_vars

(***************************************************************************)
(* Progress: every store call returns and the event loop runs the          *)
(* continuation of every handler that awaits one.  Requests come with      *)
(* payloads of users 101 and 102 and one whose user descriptor is no JSON; *)
(* the upsert of an auth request may fail, which leaves a token without    *)
(* a user row.                                                             *)
(***************************************************************************)
LiveBodies == { 2, 3, 7 }
\* the steps of handler p after its first await
Continue(p) ==
  \/ AuthUpsert(p) \/ AuthUpsertFails(p) \/ AuthRespond(p)
  \/ RewardSelect(p) \/ RewardGate(p) \/ RewardUpdate(p) \/ RewardInsert(p)
  \/ RewardRespond(p)
  \/ WithdrawAdmit(p) \/ WithdrawInsert(p) \/ WithdrawUpdate(p)

NextLive ==
  \/ \E p \in Procs : AuthBegin(p, LiveBodies)
  \/ \E p \in Procs : RewardBegin(p)
  \/ \E p \in Procs : WithdrawBegin(p)
  \/ \E p \in Procs : Continue(p)

SpecLive == Init /\ [][NextLive]_vars /\ \A p \in Procs : WF_vars(Continue(p))

(***************************************************************************)
(* Properties.                                                             *)
(***************************************************************************)
\* no request is in flight
Quiescent == \A p \in Procs : h[p].pc \in {"idle", "done"}
\* the handler answered 200
Succeeded(p) == h[p].pc = "done" /\ h[p].status = 200
\* the handler was rejected with this error
Rejected(p, err) == h[p].pc = "done" /\ h[p].status >= 400 /\ h[p].error = err
\* the reward requests of user u that were granted
Granted(u) == { p \in Procs : h[p].op = "reward" /\ h[p].uid = u /\ Succeeded(p) }
\* handler p takes the step from pc value a to pc value b
Step(p, a, b) == h[p].pc = a /\ h'[p].pc = b
\* handler p starts as a request of kind op
Starts(p, op) == h[p].pc = "idle" /\ h'[p].op = op

\* C1: reward credits are not lost. Under reward requests only, once all
\* requests have completed, a user who started with balance 0 holds exactly
\* REWARD times the number of granted reward requests.
C1_NoLostCredit ==
  Quiescent =>
    \A u \in Ids :
      (start.users[u].exists /\ start.users[u].balance = Zero)
        => users[u].balance = Num(0, REWARD * Cardinality(Granted(u)))

\* C2: two withdraw requests of 2000 coins of one user against balance 2000,
\* in any interleaving, end as one success and one "insufficient balance",
\* with exactly one new withdraw request stored and a final balance of 0.
WithdrawsOf2000(u) ==
  { p \in Procs : /\ h[p].op = "withdraw" /\ h[p].uid = u /\ h[p].pc = "done"
                  /\ h[p].status # 401 /\ h[p].amount = Num(0, 2000)
                  /\ h[p].error # "missing fields" }
C2_OneOfTwoDebits ==
  \A u \in Ids :
    LET W == WithdrawsOf2000(u) IN
    ( /\ start.users[u].exists /\ start.users[u].balance = Num(0, 2000)
      /\ Cardinality(W) = 2
      /\ \A p \in Procs \ W : h[p].pc = "idle" )
    => /\ Cardinality({ p \in W : Succeeded(p) }) = 1
       /\ Cardinality({ p \in W : Rejected(p, "insufficient balance") }) = 1
       /\ Len(withdraws) = Len(start.withdraws) + 1
       /\ users[u].balance = Zero

\* C3: every stored balance stays >= 0, and whenever the balance debit of a
\* withdraw request is written, the debited amount_coins is at most the
\* balance in the store at that moment.
C3_DebitWithinBalance ==
  [][ /\ \A u \in Ids : NLeq(Zero, users'[u].balance)
      /\ \A p \in Procs :
           Step(p, "wd_update", "done") => NLeq(h[p].amount, users[h[p].uid].balance)
    ]_vars

\* C4: whenever the update of a reward request is written, the cooldown is
\* over with respect to the last_ad_at in the store at that moment, so no two
\* rewards of a user are granted less than COOLDOWN seconds apart.
C4_CooldownAtWrite ==
  [][ \A p \in Procs :
        Step(p, "rw_update", "rw_insert")
          => ~InCooldown(h[p].now, users[h[p].uid].last_ad_at)
    ]_vars

\* C5: the status of a withdraw request changes only while it is pending:
\* once it is not pending, no step changes it.
C5_StatusOneWay ==
  [][ \A i \in DOMAIN withdraws :
        withdraws[i].status # "pending" => withdraws'[i].status = withdraws[i].status
    ]_vars

\* the identities the allow-list configures: the non-empty entries of ADMIN_IDS
AllowList(raw) == { raw[i] : i \in DOMAIN raw } \ {""}
\* the caller is a member of the allow-list; an absent or empty identity is not
IsMember(raw, admin) == admin # Undefined /\ admin # "" /\ admin \in AllowList(raw)

\* C6: the admin operation answers 403 to every caller that is no member of
\* the configured allow-list (whatever the action, also for an unset list
\* and an absent or empty identity), answers 400 to a member's action
\* outside {approve, reject}, and in both cases modifies no withdraw request.
C6_AdminGate ==
  [][ \A p \in Procs :
        Starts(p, "admin") =>
          /\ ~IsMember(env.ADMIN_IDS, h'[p].admin) => Rejected(p, "forbidden")'
          /\ (IsMember(env.ADMIN_IDS, h'[p].admin) /\ h'[p].action \notin {"approve", "reject"})
               => Rejected(p, "bad action")'
          /\ h'[p].pc = "done" => withdraws' = withdraws
    ]_vars

\* the admission rule: BelowMinimum first, then InsufficientBalance
Admission(amount, balance) ==
  IF NLess(amount, Num(0, COINS_PER_USDT * MIN_USDT)) THEN "BelowMinimum"
  ELSE IF NLess(balance, amount) THEN "InsufficientBalance"
  ELSE "Admitted"

\* C7: when a withdraw request is decided, the outcome is BelowMinimum if
\* amount_coins < minCoins, else InsufficientBalance if amount_coins exceeds
\* the balance, else Admitted; a rejection stores no withdraw request and
\* leaves the balance unchanged.
C7_Admission ==
  [][ \A p \in Procs :
        (h[p].pc = "wd_select" /\ h'[p].pc # "wd_select" /\ users[h[p].uid].exists) =>
          LET outcome == Admission(h[p].amount, users[h[p].uid].balance) IN
          /\ outcome = "BelowMinimum" => Rejected(p, "min coins")'
          /\ outcome = "InsufficientBalance" => Rejected(p, "insufficient balance")'
          /\ outcome = "Admitted" => h'[p].pc = "wd_insert"
          /\ h'[p].pc = "done" => (withdraws' = withdraws /\ users' = users)
    ]_vars

\* the least number of whole seconds that covers ms milliseconds
CeilSeconds(ms) == CHOOSE n \in 0..(COOLDOWN + 1) : (n - 1) * 1000 < ms /\ ms <= n * 1000

\* C8: the reward gate admits iff last_ad_at is absent or at least COOLDOWN
\* seconds have passed since; otherwise it answers 429 with the remaining
\* time rounded up to whole seconds, which is at least 1. A rejected reward
\* changes no balance and no last_ad_at and appends no ad event.
C8_CooldownGate ==
  [][ \A p \in Procs :
        (h[p].pc = "rw_gate" /\ h'[p].pc # "rw_gate") =>
          LET last == h[p].user.last_ad_at
              elapsed == clock - last
              admitted == last = Null \/ elapsed >= COOLDOWN * 1000
          IN /\ admitted <=> h'[p].pc = "rw_update"
             /\ ~admitted <=> Rejected(p, "cooldown")'
             /\ ~admitted =>
                  /\ h'[p].status = 429
                  /\ h'[p].left = CeilSeconds(COOLDOWN * 1000 - elapsed)
                  /\ h'[p].left >= 1
             /\ h'[p].pc = "done" => (users' = users /\ ad_events' = ad_events)
    ]_vars
\* a reward was rejected 5 seconds after the last one, with 5 seconds left
C8_Witness ==
  \E p \in Procs : Rejected(p, "cooldown") /\ h[p].left = 5
                   /\ users[h[p].uid].last_ad_at + 5000 = h[p].now

\* the lifetime of a session token, in seconds
TwoHours == 7200
\* the token was issued by the server and, at time now, its expiry has not elapsed
Valid(hdr, now) ==
  /\ hdr.kind = "bearer"
  /\ hdr.tok \in tokens
  /\ now < (hdr.tok.iat + TwoHours) * 1000

\* C9: a token issued for an identity carries the second of its issuance and
\* is accepted, as that identity, by /me, /reward/ad and /withdraw at every
\* time before two hours have passed; a request with a missing, forged or
\* expired token is answered 401, without any access to the store.
C9_Session ==
  [][ \A p \in Procs :
        /\ Step(p, "au_select", "done") =>
             \E t \in tokens' : /\ t.uid = h[p].uid
                                /\ t.iat * 1000 <= clock /\ clock < (t.iat + 1) * 1000
                                /\ Valid(Bearer(t), clock)'
        /\ (Starts(p, "me") \/ Starts(p, "reward") \/ Starts(p, "withdraw")) =>
             IF Valid(h'[p].hdr, clock)
             THEN h'[p].status # 401 /\ h'[p].uid = h'[p].hdr.tok.uid
             ELSE /\ Rejected(p, "unauthorized")' /\ h'[p].status = 401
                  /\ users' = users /\ ad_events' = ad_events /\ withdraws' = withdraws
    ]_vars
\* one token was accepted by one request and, two hours later, refused to another
C9_Witness ==
  \E p, q \in Procs :
    /\ h[p].hdr = h[q].hdr /\ h[p].hdr.kind = "bearer" /\ h[p].hdr.tok \in tokens
    /\ h[p].op # "none" /\ h[p].pc # "idle" /\ h[p].status # 401 /\ h[p].uid = h[p].hdr.tok.uid
    /\ h[q].pc = "done" /\ h[q].status = 401
    /\ clock >= (h[q].hdr.tok.iat + TwoHours) * 1000

\* the payload is correctly signed
WellSigned(d) == d.present /\ d.hash = Hmac(SECRET_KEY, dataCheckString(d.fields))
\* the user descriptor is missing, empty, without id, or no JSON
MalformedUser(d) ==
  \/ ~HasKey(d.fields, "user")
  \/ Get(d.fields, "user") \notin { User101, User102 }

\* C10: an auth request with a correctly signed payload and a malformed user
\* descriptor is answered with an error response only; no user row with the
\* id "undefined" is ever created and no token is ever issued for it.
C10_MalformedUser ==
  /\ \A p \in Procs :
       (h[p].op = "auth" /\ WellSigned(InitDatas[h[p].initData])
          /\ MalformedUser(InitDatas[h[p].initData]))
       => (h[p].pc = "done" => h[p].status >= 400)
  /\ ~users["undefined"].exists
  /\ \A t \in tokens : t.uid # "undefined"
\* the canonical string of a payload: the signature field excluded, the
\* remaining fields sorted by key and joined as key=value lines
Canonical(d) == dataCheckString(d.fields)
\* the signature field equals the keyed hash of the canonical string
SignatureMatches(d) == d.hash = Hmac(SECRET_KEY, Canonical(d))

\* C11: an auth request passes the signature check iff the signature field of
\* its payload equals the keyed hash of the canonical string of the remaining
\* fields; a payload whose signature is missing or differs is answered 401
\* "bad signature", and that request upserts no user row and issues no token.
\* Only requests that passed the check reach the upsert or succeed.
C11_Signature ==
  [][ /\ \A p \in Procs :
           (Starts(p, "auth") /\ InitDatas[h'[p].initData].present) =>
             LET d == InitDatas[h'[p].initData] IN
             /\ SignatureMatches(d) <=> (h'[p].status # 401)
             /\ ~SignatureMatches(d) =>
                  /\ Rejected(p, "bad signature")' /\ h'[p].status = 401
                  /\ users' = users /\ tokens' = tokens
      /\ \A p \in Procs :
           (h[p].op = "auth" /\ (users' # users \/ tokens' # tokens) /\ h'[p] # h[p])
             => SignatureMatches(InitDatas[h[p].initData])
      /\ \A p \in Procs :
           (h'[p].op = "auth" /\ Succeeded(p)') => SignatureMatches(InitDatas[h'[p].initData])
    ]_vars
\* a payload without signature and one with the signature of other fields
\* were refused, user 102 they name has no row and no token, and a payload
\* with the expected signature was accepted
C11_Witness ==
  /\ \E p \in Procs : /\ h[p].op = "auth" /\ Rejected(p, "bad signature")
                       /\ InitDatas[h[p].initData].hash = NoHash
  /\ ~users["102"].exists
  /\ \A t \in tokens : t.uid # "102"
  /\ \E q \in Procs : h[q].op = "auth" /\ Succeeded(q) /\ h[q].uid = "101"

\* the set of the key/value fields of a payload
FieldSet(fields) == { fields[i] : i \in DOMAIN fields }
\* no two fields of the payload have the same key
DistinctKeys(fields) == \A i, j \in DOMAIN fields : i # j => fields[i][1] # fields[j][1]
\* the key=value lines of a set of fields, sorted by key and joined
RECURSIVE CanonicalOf(_)
CanonicalOf(S) ==
  IF S = {} THEN ""
  ELSE LET least == CHOOSE x \in S : \A y \in S : y[1] # x[1] => KeyLess(x[1], y[1])
       IN least[1] \o "=" \o least[2]
          \o (IF S = {least} THEN "" ELSE "\n" \o CanonicalOf(S \ {least}))

\* C12: canonicalization does not depend on the order of the fields. For a
\* payload whose fields have distinct keys, the string that is hashed is the
\* canonical string of the set of its fields, and two auth requests whose
\* payloads carry the same fields and the same signature, in any two orders,
\* have the same verification outcome and the same identity.
C12_OrderIndependent ==
  \A p \in Procs :
    (h[p].op = "auth" /\ DistinctKeys(Payloads[h[p].initData].fields)) =>
      LET d == Payloads[h[p].initData] IN
      /\ dataCheckString(d.fields) = CanonicalOf(FieldSet(d.fields))
      /\ \A q \in Procs :
           LET e == Payloads[h[q].initData] IN
           (h[q].op = "auth" /\ FieldSet(e.fields) = FieldSet(d.fields) /\ e.hash = d.hash)
             => /\ (h[p].status = 401) <=> (h[q].status = 401)
                /\ h[p].uid = h[q].uid
\* two requests carried the same three fields in different orders and
\* were both accepted
C12_Witness ==
  \E p, q \in Procs :
    LET d == Payloads[h[p].initData]
        e == Payloads[h[q].initData]
    IN /\ h[p].op = "auth" /\ h[q].op = "auth"
       /\ Len(d.fields) = 3 /\ d.fields # e.fields /\ d.fields[1] # e.fields[1]
       /\ FieldSet(d.fields) = FieldSet(e.fields)
       /\ Succeeded(p) /\ Succeeded(q)

\* C13: the stored last_ad_at of a user never decreases: no step replaces a
\* stored timestamp with an earlier one (or with none).
C13_LastAdMonotonic ==
  [][ \A u \in Ids :
        users[u].last_ad_at # Null => users'[u].last_ad_at >= users[u].last_ad_at
    ]_vars

\* the terminal status an admin action stands for
Terminal(action) == IF action = "approve" THEN "approved" ELSE "rejected"

\* C14: the status of every withdraw request is one of pending, approved,
\* rejected: pending when a withdraw call created it, and approved (resp.
\* rejected) once an admin call with action approve (resp. reject) on it
\* has succeeded.
C14_StatusDomain ==
  [][ /\ \A i \in DOMAIN withdraws' :
           withdraws'[i].status \in {"pending", "approved", "rejected"}
      /\ \A p \in Procs :
           Step(p, "wd_insert", "wd_update") => withdraws'[Len(withdraws')].status = "pending"
      /\ \A p \in Procs :
           (Step(p, "ad_update", "done") /\ h[p].id \in DOMAIN withdraws)
             => withdraws'[h[p].id].status = Terminal(h[p].action)
    ]_vars

\* C15: an admin call is a status annotation only. No step of an admin
\* request changes a user row (balance, last_ad_at: a reject refunds
\* nothing), appends an ad event, adds or removes a withdraw request, or
\* changes a withdraw request other than the one with the given id; of that
\* one it changes nothing but the status.
C15_AdminFrame ==
  [][ \A p \in Procs :
        (h'[p].op = "admin" /\ h'[p] # h[p]) =>
          /\ users' = users
          /\ ad_events' = ad_events
          /\ DOMAIN withdraws' = DOMAIN withdraws
          /\ \A i \in DOMAIN withdraws :
               IF i = h'[p].id
               THEN withdraws'[i] = [withdraws[i] EXCEPT !.status = withdraws'[i].status]
               ELSE withdraws'[i] = withdraws[i]
    ]_vars
\* a withdraw request of 2000 coins was stored and debited, an admin rejected
\* it, and the balance is still 0 while another request is still pending
C15_Witness ==
  \E p, q \in Procs :
    /\ h[p].op = "withdraw" /\ Succeeded(p) /\ users[h[p].uid].balance = Zero
    /\ h[q].op = "admin" /\ Succeeded(q) /\ h[q].action = "reject"
    /\ h[q].id = Len(withdraws) /\ withdraws[h[q].id].status = "reject"
    /\ withdraws[h[q].id].user_id = h[p].uid
    /\ withdraws[1].status = "pending"

\* the withdraw requests of user u that were answered ok
Debited(u) == { p \in Procs : h[p].op = "withdraw" /\ h[p].uid = u /\ Succeeded(p) }
\* the sum of the amount_coins of the requests W
RECURSIVE SumAmounts(_)
SumAmounts(W) ==
  IF W = {} THEN Zero
  ELSE LET p == CHOOSE p \in W : TRUE IN NAdd(h[p].amount, SumAmounts(W \ {p}))

\* C16: the balance is conserved across reward and withdraw requests. Once
\* all requests have completed, with at most one reward granted and at most
\* one withdraw request (of at least minCoins) answered ok for a user, the
\* balance of the user is the initial balance plus the granted rewards minus
\* the amount_coins of the successful withdraw requests.
C16_Conservation ==
  Quiescent =>
    \A u \in Ids :
      (/\ start.users[u].exists
       /\ Cardinality(Granted(u)) <= 1 /\ Cardinality(Debited(u)) <= 1
       /\ \A p \in Debited(u) : NLeq(Num(0, minCoins), h[p].amount))
        => users[u].balance =
             NSub(NAdd(start.users[u].balance, Num(0, REWARD * Cardinality(Granted(u)))),
                  SumAmounts(Debited(u)))

\* no reward request is in flight
NoRewardInFlight == \A p \in Procs : h[p].op = "reward" => h[p].pc \in {"done", "crashed"}
\* the ad events of user u
EventsOf(u) == SelectSeq(ad_events, LAMBDA e : e.user_id = u)
\* the sum of the rewards of the ad events evs
RECURSIVE SumRewards(_)
SumRewards(evs) == IF evs = <<>> THEN 0 ELSE Head(evs).reward + SumRewards(Tail(evs))

\* C17: the ad events are an append-only audit with one record per reward
\* grant. No step modifies or removes an ad event; and, under reward requests
\* only, whenever no reward request is in flight, a user has as many ad
\* events as granted reward requests, and the balance minus the initial
\* balance is the sum of the rewards of these ad events.
C17_Audit ==
  [][ /\ Len(ad_events') >= Len(ad_events)
      /\ SubSeq(ad_events', 1, Len(ad_events)) = ad_events
      /\ NoRewardInFlight' =>
           \A u \in Ids :
             start.users[u].exists =>
               /\ Len(EventsOf(u))' = Cardinality(Granted(u))'
               /\ users'[u].balance = NAdd(start.users[u].balance, Num(0, SumRewards(EventsOf(u))'))
    ]_vars

\* C18: a failed store call surfaces as an error. A request one of whose
\* store calls failed is never answered with success; a withdraw request
\* that is answered ok has stored its withdraw request and debited the
\* balance, and a reward request that is answered with success has appended
\* its ad event.
C18_FailureSurfaces ==
  [][ \A p \in Procs :
        /\ (h'[p].failed /\ h'[p].pc = "done") => h'[p].status >= 400
        /\ (Step(p, "wd_update", "done") /\ Succeeded(p)') =>
             /\ users'[h[p].uid].balance = NSub(h[p].user.balance, h[p].amount)
             /\ \E i \in DOMAIN withdraws \ DOMAIN start.withdraws :
                  withdraws[i].user_id = h[p].uid /\ withdraws[i].amount_coins = h[p].amount
        /\ (Step(p, "rw_reselect", "done") /\ Succeeded(p)') =>
             Len(EventsOf(h[p].uid)) >= 1
    ]_vars

\* C19: every request eventually receives its response, provided each store
\* call returns: a handler that has started eventually is done, whatever
\* the request (also a reward or withdraw request with a valid token whose
\* user has no row, and an auth request whose user descriptor is no JSON).
C19_Responds ==
  \A p \in Procs : (h[p].pc # "idle") ~> (h[p].pc = "done")

\* C20: no withdraw request increases a balance. A withdraw request is
\* admitted only if the true value of amount_coins (not its low 32 bits) is
\* at least minCoins, and the balance write of an admitted request does not
\* raise the stored balance: it writes the balance read minus amount_coins.
C20_NoIncrease ==
  [][ \A p \in Procs :
        /\ Step(p, "wd_select", "wd_insert") => NLeq(Num(0, minCoins), h[p].amount)
        /\ Step(p, "wd_update", "done") =>
             /\ NLeq(users'[h[p].uid].balance, users[h[p].uid].balance)
             /\ users'[h[p].uid].balance = NSub(h[p].user.balance, h[p].amount)
    ]_vars

====
